---------------------------- MODULE Spec2Model ----------------------------
(***************************************************************************)
(* A model of src/shell/command_helper.h of pegasus:                       *)
(*   - scan_data_next, the per-split scan pipeline, at the granularity of  *)
(*     its atomic loads, stores, increments and exchanges, run by the      *)
(*     calling thread and by any number of concurrently running callbacks; *)
(*   - top_container::push;                                                *)
(*   - call_remote_command;                                                *)
(*   - parse_app_pegasus_perf_counter_name;                                *)
(*   - get_app_stat, with update_app_pegasus_perf_counter.                 *)
(***************************************************************************)
EXTENDS Integers, Sequences, FiniteSets, TLC

\* ------------------------------------------------------------------ bounds
\* Rows held by the cursor of the split.
NumRows == 2
\* Largest max_batch_count a split is built with.
MaxBatch == 2
\* Largest top_count (capacity of top_container) in the scan pipeline.
MaxTopCount == 1

\* ------------------------------------------------------- scan_data_operator
SCAN_COPY == "SCAN_COPY"
SCAN_CLEAR == "SCAN_CLEAR"
SCAN_COUNT == "SCAN_COUNT"
SCAN_GEN_GEO == "SCAN_GEN_GEO"
ScanOps == {SCAN_COPY, SCAN_CLEAR, SCAN_COUNT, SCAN_GEN_GEO}

\* pegasus error codes a callback can receive: PERR_OK, PERR_SCAN_COMPLETE
\* and one representative of every other code.
PERR_OK == "PERR_OK"
PERR_SCAN_COMPLETE == "PERR_SCAN_COMPLETE"
PERR_TIMEOUT == "PERR_TIMEOUT"

VARIABLES
    \* scan_data_context
    op, max_batch_count, stat_size, top_count,
    split_completed, error_occurred, split_rows, split_request_count,
    hist_count,     \* samples added to each of the four histograms
    heap,           \* top_rows._heap: a set of items [key, row_size]
    heap_count,     \* top_rows._count
    \* the cursor and the operations in flight
    cursor_left,    \* rows the cursor still holds
    fetching,       \* issued async_next calls whose callback has not started
    writing,        \* issued async_set/async_del calls whose callback has not started
    main_pc,        \* the thread that called scan_data_next(context) first
    cb,             \* running callbacks: <<location, row>> -> how many are there
    \* history
    delivered,      \* rows the cursor has delivered
    reports,        \* "ERROR: split[...]" lines written to stderr
    failed,         \* whether some callback of the split has received an error
    applied,        \* apply operations started: writes issued, rows counted locally
    write_ok,       \* write callbacks invoked with PERR_OK
    offered,        \* the row sizes given to top_container::push so far, ascending
    \* call_remote_command
    num_nodes,      \* nodes.size()
    rc_pc,          \* where the caller stands: "resize", "issue", "wait", "returned"
    rc_i,           \* the loop variable i of the caller (0-based, as in the code)
    tasks,          \* tasks[i]: "null", "pending", "running" (callback begun), "finished"
    results,        \* results[i] = [first, second]
    replies,        \* what node i answered: [err, payload]
    \* parse_app_pegasus_perf_counter_name
    name,           \* the argument, a sequence of characters
    p_pc,           \* "call" before the call, "done" after it
    p_ret,          \* the value returned
    app_id, partition_index, counter_name,  \* the output arguments
    \* get_app_stat
    gs_pc,          \* where get_app_stat stands, "done" once it has returned
    app_name,       \* the argument: "" or the name of a table
    apps,           \* what list_apps gave: the names of the available tables
    nodes,          \* nodes.size(); the address of nodes[i] is i + 1
    app_partitions, \* app_id -> (partition index -> address of its primary)
    rows,           \* the output argument, rows[idx] at position idx + 1
    gs_i,           \* the loop variable of the loop being run (0-based)
    gs_k,           \* counters of info.counters read so far
    gs_ret,         \* the value returned
    gs_log,         \* the line derror has written, "" when none
    \* history
    reported        \* per row, the sums of what the primaries have reported

scanVars == <<op, max_batch_count, stat_size, top_count, split_completed,
              error_occurred, split_rows, split_request_count, hist_count,
              cursor_left, fetching, writing, main_pc, cb, delivered, reports,
              failed, applied, write_ok>>
topVars == <<heap, heap_count, offered>>

rpcVars == <<num_nodes, rc_pc, rc_i, tasks, results, replies>>
parseVars == <<name, p_pc, p_ret, app_id, partition_index, counter_name>>
statVars == <<gs_pc, app_name, apps, nodes, app_partitions, rows, gs_i, gs_k,
              gs_ret, gs_log, reported>>

vars == <<scanVars, topVars, rpcVars, parseVars, statVars>>


\* ---------------------------------------------------------- top_container
\* top_heap_item: the keys of a row (here its ordinal) and its size.
Item(key, row_size) == [key |-> key, row_size |-> row_size]

\* top_heap_compare orders items by row_size with "<", and std::priority_queue
\* keeps a greatest item of its order at top(): the candidates for _heap.top().
HeapTops(h) == {x \in h : \A y \in h : ~(x.row_size < y.row_size)}

\* The test of push's first branch, _heap.size() < _count.
HeapHasRoom(h, count) == Cardinality(h) < count

\* The test that lets a sample replace the top item, top.row_size < row_size.
Replaces(top, row_size) == top.row_size < row_size

\* top_container::push under _lock: the heaps it can leave.  Ties between
\* equal-sized items at the top are the library's choice.  With an empty full
\* heap (_count = 0) _heap.top() reads an item that does not exist: the
\* comparison can go either way, and the heap ends unchanged or holding the
\* sample.
PushOutcomes(h, count, item) ==
    IF HeapHasRoom(h, count) THEN {h \cup {item}}
    ELSE IF h = {} THEN {h, {item}}
    ELSE {IF Replaces(top, item.row_size) THEN (h \ {top}) \cup {item} ELSE h :
             top \in HeapTops(h)}

\* The history of push calls: the sizes offered, kept in ascending order.
Offer(sizes, row_size) ==
    LET n == Cardinality({i \in 1 .. Len(sizes) : sizes[i] <= row_size})
    IN  SubSeq(sizes, 1, n) \o <<row_size>> \o SubSeq(sizes, n + 1, Len(sizes))

\* ------------------------------------------------------------ the scan split
\* Size of the r-th row of the cursor (hash key + sort key + value).
RowSize(r) == 10 * r

\* Places of a running callback in the lambdas of scan_data_next.
CbLocs == {"wr_inc", "wr_issue", "cnt_rows", "cnt_stat", "fin_store",
           "err_xchg", "err_store", "ok_rows",
           "chk1", "chk2", "chk3", "inc", "issue", "dec"}

\* How many callbacks run at place k (cb maps the occupied places only).
CbAt(k) == IF k \in DOMAIN cb THEN cb[k] ELSE 0
CbAdd(c, k) == IF k \in DOMAIN c THEN [c EXCEPT ![k] = @ + 1] ELSE c @@ (k :> 1)
CbDel(c, k) == IF c[k] > 1 THEN [c EXCEPT ![k] = @ - 1]
               ELSE [x \in DOMAIN c \ {k} |-> c[x]]

\* A callback leaves place from for place to; one starts; one ends.
CbMove(from, to) == cb' = CbAdd(CbDel(cb, from), to)
CbStart(to) == cb' = CbAdd(cb, to)
CbEnd(from) == cb' = CbDel(cb, from)

\* No counter name is being parsed.
ParseIdle ==
    /\ name = <<>>
    /\ p_pc = "done"
    /\ p_ret = FALSE
    /\ app_id = 0
    /\ partition_index = 0
    /\ counter_name = <<>>

\* get_app_stat is not being run.
StatIdle ==
    /\ gs_pc = "done"
    /\ app_name = ""
    /\ apps = <<>>
    /\ nodes = 0
    /\ app_partitions = <<>>
    /\ rows = <<>>
    /\ gs_i = 0
    /\ gs_k = 0
    /\ gs_ret = FALSE
    /\ gs_log = ""
    /\ reported = <<>>

\* No remote command is being sent.
RpcIdle ==
    /\ num_nodes = 0
    /\ rc_pc = "returned"
    /\ rc_i = 0
    /\ tasks = <<>>
    /\ results = <<>>
    /\ replies = <<>>

\* scan_data_context's constructor, and the state before scan_data_next is
\* called.  stat_size and top_count are read in SCAN_COUNT mode only, and are
\* left at their defaults in the other modes.
ScanInit ==
    /\ StatIdle
    /\ RpcIdle
    /\ ParseIdle
    /\ op \in ScanOps
    /\ max_batch_count \in 1 .. MaxBatch
    /\ stat_size \in BOOLEAN
    /\ top_count \in 0 .. MaxTopCount
    /\ (op # SCAN_COUNT => (stat_size = FALSE /\ top_count = 0))
    /\ split_completed = FALSE
    /\ error_occurred = FALSE
    /\ split_rows = 0
    /\ split_request_count = 0
    /\ hist_count = 0
    /\ heap = {}
    /\ heap_count = top_count
    /\ cursor_left \in 0 .. NumRows
    /\ fetching = 0
    /\ writing = 0
    /\ main_pc = "chk1"
    /\ cb = <<>>
    /\ delivered = 0
    /\ reports = 0
    /\ failed = FALSE
    /\ applied = 0
    /\ write_ok = 0
    /\ offered = <<>>


\* The threads that run the loop of scan_data_next: the caller of the first
\* scan_data_next(context), and callbacks that call it again.
Threads == {"main", "cb"}
LoopAt(t, loc) == IF t = "main" THEN main_pc = loc ELSE CbAt(<<loc, 0>>) > 0
LoopGo(t, from, to) ==
    IF t = "main"
    THEN main_pc' = to /\ UNCHANGED cb
    ELSE CbMove(<<from, 0>>, <<to, 0>>) /\ UNCHANGED main_pc
\* Where the thread continues when the loop ends: the caller returns, a
\* callback goes on to its final decrement.
LoopExit(t) == IF t = "main" THEN "done" ELSE "dec"

\* The third test of the loop, on the value split_request_count.load() gave.
WithinBatch(count) == count < max_batch_count

\* while (!context->split_completed.load() ...
LoadCompleted(t) ==
    /\ LoopAt(t, "chk1")
    /\ LoopGo(t, "chk1", IF split_completed THEN LoopExit(t) ELSE "chk2")
    /\ UNCHANGED <<op, max_batch_count, stat_size, top_count, split_completed,
                   error_occurred, split_rows, split_request_count, hist_count,
                   cursor_left, fetching, writing, delivered, reports,
                   failed, applied, write_ok,
                   topVars, rpcVars, parseVars, statVars>>

\* ... && !context->error_occurred->load() ...
LoadError(t) ==
    /\ LoopAt(t, "chk2")
    /\ LoopGo(t, "chk2", IF error_occurred THEN LoopExit(t) ELSE "chk3")
    /\ UNCHANGED <<op, max_batch_count, stat_size, top_count, split_completed,
                   error_occurred, split_rows, split_request_count, hist_count,
                   cursor_left, fetching, writing, delivered, reports,
                   failed, applied, write_ok,
                   topVars, rpcVars, parseVars, statVars>>

\* ... && context->split_request_count.load() < context->max_batch_count)
LoadCount(t) ==
    /\ LoopAt(t, "chk3")
    /\ LoopGo(t, "chk3",
              IF WithinBatch(split_request_count) THEN "inc" ELSE LoopExit(t))
    /\ UNCHANGED <<op, max_batch_count, stat_size, top_count, split_completed,
                   error_occurred, split_rows, split_request_count, hist_count,
                   cursor_left, fetching, writing, delivered, reports,
                   failed, applied, write_ok,
                   topVars, rpcVars, parseVars, statVars>>

\* context->split_request_count++ of the loop body
IncForFetch(t) ==
    /\ LoopAt(t, "inc")
    /\ split_request_count' = split_request_count + 1
    /\ LoopGo(t, "inc", "issue")
    /\ UNCHANGED <<op, max_batch_count, stat_size, top_count, split_completed,
                   error_occurred, split_rows, hist_count,
                   cursor_left, fetching, writing, delivered, reports,
                   failed, applied, write_ok,
                   topVars, rpcVars, parseVars, statVars>>

\* context->scanner->async_next(callback)
IssueFetch(t) ==
    /\ LoopAt(t, "issue")
    /\ fetching' = fetching + 1
    /\ LoopGo(t, "issue", "chk1")
    /\ UNCHANGED <<op, max_batch_count, stat_size, top_count, split_completed,
                   error_occurred, split_rows, split_request_count, hist_count,
                   cursor_left, writing, delivered, reports,
                   failed, applied, write_ok,
                   topVars, rpcVars, parseVars, statVars>>

\* What the cursor can answer to one async_next: a row while it holds one,
\* the end-of-data signal once it holds none, an error at any time.
CursorOutcomes ==
    (IF cursor_left > 0 THEN {PERR_OK} ELSE {PERR_SCAN_COMPLETE}) \cup {PERR_TIMEOUT}

\* Where the callback of async_next starts, by ret and context->op; r is the
\* row it was given, kept where its keys and size are used (by push).
FetchBranch(ret, r) ==
    IF ret = PERR_OK
    THEN (IF op = SCAN_COUNT
          THEN <<"cnt_rows", IF stat_size /\ top_count > 0 THEN r ELSE 0>>
          ELSE <<"wr_inc", 0>>)
    ELSE IF ret = PERR_SCAN_COMPLETE THEN <<"fin_store", 0>>
    ELSE <<"err_xchg", 0>>

\* The callback of an issued async_next is invoked with ret.
FetchReturn(ret) ==
    /\ fetching > 0
    /\ ret \in CursorOutcomes
    /\ fetching' = fetching - 1
    /\ cursor_left' = IF ret = PERR_OK THEN cursor_left - 1 ELSE cursor_left
    /\ delivered' = IF ret = PERR_OK THEN delivered + 1 ELSE delivered
    /\ failed' = (failed \/ ret \notin {PERR_OK, PERR_SCAN_COMPLETE})
    /\ CbStart(FetchBranch(ret, delivered + 1))
    /\ UNCHANGED <<op, max_batch_count, stat_size, top_count, split_completed,
                   error_occurred, split_rows, split_request_count, hist_count,
                   writing, main_pc, reports, applied, write_ok,
                   topVars, rpcVars, parseVars, statVars>>

\* A write that is issued without being counted.
IncForWriteUncounted ==
    /\ CbAt(<<"wr_inc", 0>>) > 0
    /\ CbMove(<<"wr_inc", 0>>, <<"wr_issue", 0>>)
    /\ UNCHANGED <<op, max_batch_count, stat_size, top_count, split_completed,
                   error_occurred, split_rows, split_request_count, hist_count,
                   cursor_left, fetching, writing, main_pc, delivered, reports,
                   failed, applied, write_ok,
                   topVars, rpcVars, parseVars, statVars>>

\* case SCAN_COPY / SCAN_CLEAR / SCAN_GEN_GEO: context->split_request_count++
IncForWrite ==
    /\ CbAt(<<"wr_inc", 0>>) > 0
    /\ split_request_count' = split_request_count + 1
    /\ CbMove(<<"wr_inc", 0>>, <<"wr_issue", 0>>)
    /\ UNCHANGED <<op, max_batch_count, stat_size, top_count, split_completed,
                   error_occurred, split_rows, hist_count,
                   cursor_left, fetching, writing, main_pc, delivered, reports,
                   failed, applied, write_ok,
                   topVars, rpcVars, parseVars, statVars>>

\* client->async_set / client->async_del / geoclient->async_set, then break
IssueWrite ==
    /\ CbAt(<<"wr_issue", 0>>) > 0
    /\ writing' = writing + 1
    /\ applied' = applied + 1
    /\ CbMove(<<"wr_issue", 0>>, <<"dec", 0>>)
    /\ UNCHANGED <<op, max_batch_count, stat_size, top_count, split_completed,
                   error_occurred, split_rows, split_request_count, hist_count,
                   cursor_left, fetching, main_pc, delivered, reports,
                   failed, write_ok,
                   topVars, rpcVars, parseVars, statVars>>

\* A write callback that takes every answer for a success.
WriteReturnTakenAsOk(err) ==
    /\ writing > 0
    /\ err \in {PERR_OK, PERR_TIMEOUT}
    /\ writing' = writing - 1
    /\ write_ok' = IF err = PERR_OK THEN write_ok + 1 ELSE write_ok
    /\ failed' = (failed \/ err # PERR_OK)
    /\ CbStart(<<"ok_rows", 0>>)
    /\ UNCHANGED <<op, max_batch_count, stat_size, top_count, split_completed,
                   error_occurred, split_rows, split_request_count, hist_count,
                   cursor_left, fetching, main_pc, delivered, reports,
                   applied,
                   topVars, rpcVars, parseVars, statVars>>

\* The callback of an issued write is invoked with err.
WriteReturn(err) ==
    /\ writing > 0
    /\ err \in {PERR_OK, PERR_TIMEOUT}
    /\ writing' = writing - 1
    /\ write_ok' = IF err = PERR_OK THEN write_ok + 1 ELSE write_ok
    /\ failed' = (failed \/ err # PERR_OK)
    /\ CbStart(IF err # PERR_OK THEN <<"err_xchg", 0>> ELSE <<"ok_rows", 0>>)
    /\ UNCHANGED <<op, max_batch_count, stat_size, top_count, split_completed,
                   error_occurred, split_rows, split_request_count, hist_count,
                   cursor_left, fetching, main_pc, delivered, reports,
                   applied,
                   topVars, rpcVars, parseVars, statVars>>

\* A write callback that gives its slot back before it refills.
WriteOkDecrementsFirst ==
    /\ CbAt(<<"ok_rows", 0>>) > 0
    /\ split_rows' = split_rows + 1
    /\ split_request_count' = split_request_count - 1
    /\ CbMove(<<"ok_rows", 0>>, <<"chk1", 0>>)
    /\ UNCHANGED <<op, max_batch_count, stat_size, top_count, split_completed,
                   error_occurred, hist_count,
                   cursor_left, fetching, writing, main_pc, delivered, reports,
                   failed, applied, write_ok,
                   topVars, rpcVars, parseVars, statVars>>

\* else-branch of a write callback: context->split_rows++, then scan_data_next
WriteOk ==
    /\ CbAt(<<"ok_rows", 0>>) > 0
    /\ split_rows' = split_rows + 1
    /\ CbMove(<<"ok_rows", 0>>, <<"chk1", 0>>)
    /\ UNCHANGED <<op, max_batch_count, stat_size, top_count, split_completed,
                   error_occurred, split_request_count, hist_count,
                   cursor_left, fetching, writing, main_pc, delivered, reports,
                   failed, applied, write_ok,
                   topVars, rpcVars, parseVars, statVars>>

\* A count callback that counts its row twice.
CountRowTwice(r) ==
    /\ CbAt(<<"cnt_rows", r>>) > 0
    /\ split_rows' = split_rows + 2
    /\ applied' = applied + 1
    /\ CbMove(<<"cnt_rows", r>>, IF stat_size THEN <<"cnt_stat", r>> ELSE <<"chk1", 0>>)
    /\ UNCHANGED <<op, max_batch_count, stat_size, top_count, split_completed,
                   error_occurred, split_request_count, hist_count,
                   cursor_left, fetching, writing, main_pc, delivered, reports,
                   failed, write_ok,
                   topVars, rpcVars, parseVars, statVars>>

\* case SCAN_COUNT: context->split_rows++
CountRow(r) ==
    /\ CbAt(<<"cnt_rows", r>>) > 0
    /\ split_rows' = split_rows + 1
    /\ applied' = applied + 1
    /\ CbMove(<<"cnt_rows", r>>, IF stat_size THEN <<"cnt_stat", r>> ELSE <<"chk1", 0>>)
    /\ UNCHANGED <<op, max_batch_count, stat_size, top_count, split_completed,
                   error_occurred, split_request_count, hist_count,
                   cursor_left, fetching, writing, main_pc, delivered, reports,
                   failed, write_ok,
                   topVars, rpcVars, parseVars, statVars>>

\* if (context->stat_size): the four histogram Adds, and top_rows.push when
\* top_count > 0; then scan_data_next
CountStat(r) ==
    /\ CbAt(<<"cnt_stat", r>>) > 0
    /\ hist_count' = hist_count + 1
    /\ IF top_count > 0
       THEN /\ heap' \in PushOutcomes(heap, heap_count, Item(r, RowSize(r)))
            /\ offered' = Offer(offered, RowSize(r))
            /\ UNCHANGED heap_count
       ELSE UNCHANGED topVars
    /\ UNCHANGED <<rpcVars, parseVars, statVars>>
    /\ CbMove(<<"cnt_stat", r>>, <<"chk1", 0>>)
    /\ UNCHANGED <<op, max_batch_count, stat_size, top_count, split_completed,
                   error_occurred, split_rows, split_request_count,
                   cursor_left, fetching, writing, main_pc, delivered, reports,
                   failed, applied, write_ok>>

\* An end-of-data callback that ends the split as a failed one does.
StoreCompletedAsError ==
    /\ CbAt(<<"fin_store", 0>>) > 0
    /\ split_completed' = TRUE
    /\ error_occurred' = TRUE
    /\ CbMove(<<"fin_store", 0>>, <<"dec", 0>>)
    /\ UNCHANGED <<op, max_batch_count, stat_size, top_count,
                   split_rows, split_request_count, hist_count,
                   cursor_left, fetching, writing, main_pc, delivered, reports,
                   failed, applied, write_ok,
                   topVars, rpcVars, parseVars, statVars>>

\* An end-of-data callback that stores false.
StoreCompletedFalse ==
    /\ CbAt(<<"fin_store", 0>>) > 0
    /\ split_completed' = FALSE
    /\ CbMove(<<"fin_store", 0>>, <<"dec", 0>>)
    /\ UNCHANGED <<op, max_batch_count, stat_size, top_count,
                   error_occurred, split_rows, split_request_count, hist_count,
                   cursor_left, fetching, writing, main_pc, delivered, reports,
                   failed, applied, write_ok,
                   topVars, rpcVars, parseVars, statVars>>

\* else if (ret == PERR_SCAN_COMPLETE) context->split_completed.store(true)
StoreCompleted ==
    /\ CbAt(<<"fin_store", 0>>) > 0
    /\ split_completed' = TRUE
    /\ CbMove(<<"fin_store", 0>>, <<"dec", 0>>)
    /\ UNCHANGED <<op, max_batch_count, stat_size, top_count,
                   error_occurred, split_rows, split_request_count, hist_count,
                   cursor_left, fetching, writing, main_pc, delivered, reports,
                   failed, applied, write_ok,
                   topVars, rpcVars, parseVars, statVars>>

\* A callback that reports whatever the exchange returned.
ExchangeIgnored(old) == TRUE

\* !context->split_completed.exchange(true): whether this callback is the
\* one that found the flag false.
ExchangeWon(old) == ~old

\* if (!context->split_completed.exchange(true)) { fprintf(stderr, "ERROR: ...
\* in the callback of a failed async_next, async_set or async_del
ErrorExchange ==
    /\ CbAt(<<"err_xchg", 0>>) > 0
    /\ split_completed' = TRUE
    /\ IF ExchangeWon(split_completed)
       THEN /\ reports' = reports + 1
            /\ CbMove(<<"err_xchg", 0>>, <<"err_store", 0>>)
       ELSE /\ UNCHANGED reports
            /\ CbMove(<<"err_xchg", 0>>, <<"dec", 0>>)
    /\ UNCHANGED <<op, max_batch_count, stat_size, top_count,
                   error_occurred, split_rows, split_request_count, hist_count,
                   cursor_left, fetching, writing, main_pc, delivered,
                   failed, applied, write_ok,
                   topVars, rpcVars, parseVars, statVars>>

\* context->error_occurred->store(true)
ErrorStore ==
    /\ CbAt(<<"err_store", 0>>) > 0
    /\ error_occurred' = TRUE
    /\ CbMove(<<"err_store", 0>>, <<"dec", 0>>)
    /\ UNCHANGED <<op, max_batch_count, stat_size, top_count, split_completed,
                   split_rows, split_request_count, hist_count,
                   cursor_left, fetching, writing, main_pc, delivered, reports,
                   failed, applied, write_ok,
                   topVars, rpcVars, parseVars, statVars>>

\* context->split_request_count-- at the end of a callback's scope
Decrement ==
    /\ CbAt(<<"dec", 0>>) > 0
    /\ split_request_count' = split_request_count - 1
    /\ CbEnd(<<"dec", 0>>)
    /\ UNCHANGED <<op, max_batch_count, stat_size, top_count, split_completed,
                   error_occurred, split_rows, hist_count,
                   cursor_left, fetching, writing, main_pc, delivered, reports,
                   failed, applied, write_ok,
                   topVars, rpcVars, parseVars, statVars>>

\* error_occurred is shared by the splits of a job: a callback of another
\* split stores true to it.
OtherSplitError ==
    /\ ~error_occurred
    /\ error_occurred' = TRUE
    /\ UNCHANGED <<op, max_batch_count, stat_size, top_count, split_completed,
                   split_rows, split_request_count, hist_count,
                   cursor_left, fetching, writing, main_pc, cb, delivered, reports,
                   failed, applied, write_ok,
                   topVars, rpcVars, parseVars, statVars>>

\* The steps of this split.
SplitNext ==
    \/ \E t \in Threads : LoadCompleted(t)
    \/ \E t \in Threads : LoadError(t)
    \/ \E t \in Threads : LoadCount(t)
    \/ \E t \in Threads : IncForFetch(t)
    \/ \E t \in Threads : IssueFetch(t)
    \/ \E ret \in {PERR_OK, PERR_SCAN_COMPLETE, PERR_TIMEOUT} : FetchReturn(ret)
    \/ IncForWrite
    \/ IssueWrite
    \/ \E err \in {PERR_OK, PERR_TIMEOUT} : WriteReturn(err)
    \/ WriteOk
    \/ \E r \in 0 .. NumRows : CountRow(r)
    \/ \E r \in 0 .. NumRows : CountStat(r)
    \/ StoreCompleted
    \/ ErrorExchange
    \/ ErrorStore
    \/ Decrement

Next == SplitNext \/ OtherSplitError

Spec == ScanInit /\ [][Next]_vars

\* Every enabled step of the split is eventually taken: the client invokes the
\* callback of every issued operation, and running threads make progress.
ScanFair == Spec /\ WF_vars(SplitNext)


\* ------------------------------------------------------- claims on the scan
\* No operation is outstanding and no callback is running.
Drained == split_request_count = 0

\* C1: for every operation mode and every interleaving, split_request_count
\* never exceeds max_batch_count.
InFlightWithinBatch == split_request_count <= max_batch_count

\* C2: under fair scheduling of the split's steps, a split eventually has
\* split_completed = true.  Stated in the form most generous to the code: a
\* split that stopped because another split of the job set error_occurred
\* counts as terminated too.
ScanTerminates == <>(split_completed \/ error_occurred)

\* C3: in copy, delete and reindex mode, a drained, completed split without
\* error has split_rows equal to the rows the cursor delivered.
RowsConserved ==
    (op # SCAN_COUNT /\ Drained /\ split_completed /\ ~error_occurred)
        => split_rows = delivered

\* C4: at most one "ERROR: split[...]" report is written per split, however
\* many callbacks fail.
OneErrorReport == reports <= 1

\* C4 witness: one report is written and a further failed callback has reached
\* its exchange on split_completed.
OneErrorReportWitness == reports = 1 /\ CbAt(<<"err_xchg", 0>>) > 0

\* C5: once a callback of the split has received an error and the split has
\* drained, error_occurred is true.
FailureRecorded == (failed /\ Drained) => error_occurred

\* The callbacks that are running, at any place.
RECURSIVE CbSum(_)
CbSum(places) ==
    IF places = {} THEN 0
    ELSE LET k == CHOOSE x \in places : TRUE
         IN  cb[k] + CbSum(places \ {k})
RunningCallbacks == CbSum(DOMAIN cb)

\* The operations issued whose callback has not made its final decrement:
\* those not answered yet and those whose callback is running.
Outstanding == fetching + writing + RunningCallbacks

\* The operations a thread has counted with split_request_count++ and is
\* about to issue.
AboutToIssue ==
    (IF main_pc = "issue" THEN 1 ELSE 0)
        + CbAt(<<"issue", 0>>) + CbAt(<<"wr_issue", 0>>)

\* C13 as claimed: split_request_count is never negative and equals the
\* number of issued operations whose callback has not made its final
\* decrement.
CountIsOutstanding ==
    /\ split_request_count >= 0
    /\ split_request_count = Outstanding

\* C13 as amended: split_request_count is never negative and equals the
\* number of issued operations whose callback has not made its final
\* decrement plus the number of operations counted and about to be issued;
\* so it is 0 only when every issued operation's callback has run to its end.
CountIsOutstandingOrCounted ==
    /\ split_request_count >= 0
    /\ split_request_count = Outstanding + AboutToIssue
    /\ Drained => Outstanding = 0

\* C13 witness: a fetch is unanswered while the callback of another has
\* counted its write and not issued it yet.
CountIsOutstandingOrCountedWitness ==
    /\ CbAt(<<"wr_issue", 0>>) > 0
    /\ fetching > 0
    /\ split_request_count = 3

\* C14: split_completed starts false, and once true it is never false again.
CompletedMonotonic ==
    /\ ~split_completed
    /\ [][split_completed => split_completed']_vars

\* C14 witness: split_completed is true and a further end-of-data callback
\* is about to store to it.
CompletedMonotonicWitness ==
    /\ split_completed
    /\ CbAt(<<"fin_store", 0>>) > 0

\* C15: the step of an end-of-data callback sets split_completed and leaves
\* error_occurred, split_rows and the reports on stderr as they are; and
\* error_occurred becomes true only by the store of a callback of a split
\* that received an error and found split_completed false in its exchange
\* (of this split, or of another split of the job).
EndOfDataSetsCompletedOnly ==
    /\ [][StoreCompleted =>
             /\ split_completed'
             /\ UNCHANGED <<error_occurred, split_rows, reports>>]_vars
    /\ [][(error_occurred' # error_occurred) =>
             /\ error_occurred'
             /\ \/ OtherSplitError
                \/ CbAt(<<"err_store", 0>>) > 0 /\ ErrorStore]_vars
    /\ [][(CbAt(<<"err_store", 0>>)' > CbAt(<<"err_store", 0>>)) =>
             /\ CbAt(<<"err_xchg", 0>>) > 0
             /\ failed
             /\ ~split_completed
             /\ split_completed']_vars

\* C15 witness: the end-of-data callback of a split whose fetches all
\* succeeded has stored, and is about to make its decrement.
EndOfDataSetsCompletedOnlyWitness ==
    /\ split_completed
    /\ ~error_occurred
    /\ ~failed
    /\ reports = 0
    /\ delivered = NumRows
    /\ split_rows = NumRows
    /\ CbAt(<<"dec", 0>>) > 0
    /\ fetching = 0

\* C16: a callback ends by decrementing split_request_count, and the count
\* goes down by one only when a callback ends; so while a callback runs,
\* its refill included, split_request_count is at least 1.
DecrementIsLast ==
    /\ [](RunningCallbacks > 0 => split_request_count >= 1)
    /\ [][(split_request_count' < split_request_count
              \/ RunningCallbacks' < RunningCallbacks) =>
             /\ split_request_count' = split_request_count - 1
             /\ RunningCallbacks' = RunningCallbacks - 1
             /\ CbAt(<<"dec", 0>>)' = CbAt(<<"dec", 0>>) - 1]_vars

\* C16 witness: nothing is in flight and the count is 1 for the one callback
\* that runs, at the third test of the loop of its refill.
DecrementIsLastWitness ==
    /\ CbAt(<<"chk3", 0>>) = 1
    /\ RunningCallbacks = 1
    /\ fetching = 0
    /\ writing = 0
    /\ main_pc = "done"
    /\ split_request_count = 1

\* C17: every call of scanner->async_next happens in a state where
\* split_completed is false.
FetchOnlyBeforeCompleted == [][fetching' > fetching => ~split_completed]_vars

\* C18: once error_occurred is true no operation is issued, neither a fetch
\* nor a write.
NoIssueAfterError ==
    [][(fetching' > fetching \/ writing' > writing) => ~error_occurred]_vars

\* The count callbacks that have not counted their row yet, and those that
\* have not sampled it yet.
RECURSIVE CbRows(_, _)
CbRows(loc, r) ==
    IF r < 0 THEN 0 ELSE CbAt(<<loc, r>>) + CbRows(loc, r - 1)
ToCount == CbRows("cnt_rows", NumRows)
ToSample == CbRows("cnt_stat", NumRows)

\* C19: in count mode every delivered row is counted once, inside its fetch
\* callback: split_rows is the rows delivered less those whose callback has
\* not counted yet; with stat_size each counted row gets one sample in each
\* histogram, and one push exactly when top_count > 0; without stat_size
\* there is no sample and no push; no write is ever issued or counted, the
\* count holding the fetches alone; and a drained, completed split has
\* split_rows equal to the rows delivered.
CountModeCountsOnce ==
    op = SCAN_COUNT =>
        /\ split_rows = delivered - ToCount
        /\ hist_count = (IF stat_size THEN split_rows - ToSample ELSE 0)
        /\ Len(offered) = (IF stat_size /\ top_count > 0 THEN hist_count ELSE 0)
        /\ writing = 0
        /\ CbAt(<<"wr_inc", 0>>) + CbAt(<<"wr_issue", 0>>) + CbAt(<<"ok_rows", 0>>) = 0
        /\ split_request_count = fetching + RunningCallbacks + AboutToIssue
        /\ (Drained /\ split_completed) => split_rows = delivered

\* C19 witness: a count split with stat_size and top_count > 0 has drained
\* and completed after the cursor delivered every row.
CountModeCountsOnceWitness ==
    /\ op = SCAN_COUNT
    /\ stat_size
    /\ top_count > 0
    /\ Drained
    /\ split_completed
    /\ ~error_occurred
    /\ delivered = NumRows
    /\ split_rows = NumRows
    /\ hist_count = NumRows
    /\ Len(offered) = NumRows


\* C23: a split is never idle without a terminal signal: once the caller of
\* the first scan_data_next has issued its fetches and returned, a state with
\* split_request_count = 0 has split_completed or error_occurred true.  With
\* the caller returned and the count 0 no thread of the split is left to
\* issue anything.
IdleOnlyWhenSignalled ==
    (main_pc = "done" /\ Drained) => (split_completed \/ error_occurred)

\* C24: rows are never counted twice.  split_rows never exceeds the rows
\* delivered; every delivered row starts one apply operation (a write issued
\* or a local count), the rows whose callback has not come to it yet aside;
\* and in copy, delete and reindex mode split_rows is the number of write
\* callbacks invoked with success, those that have not made their increment
\* yet aside, so that in a drained split the two are equal.
RowsAppliedOnce ==
    /\ split_rows <= delivered
    /\ applied = delivered - (CbAt(<<"wr_inc", 0>>) + CbAt(<<"wr_issue", 0>>) + ToCount)
    /\ op # SCAN_COUNT =>
           /\ split_rows = write_ok - CbAt(<<"ok_rows", 0>>)
           /\ write_ok <= applied
           /\ Drained => (applied = delivered /\ split_rows = write_ok)

\* C24 witness: a drained copy split to which every row was delivered, one
\* write of which succeeded and another failed.
RowsAppliedOnceWitness ==
    /\ op = SCAN_COPY
    /\ Drained
    /\ delivered = NumRows
    /\ applied = NumRows
    /\ failed
    /\ write_ok = 1
    /\ split_rows = 1

\* ------------------------------------------------- top_container on its own
\* Largest capacity of a container, and most push calls made on it.
MaxK == 2
MaxPushes == 3
\* The row sizes offered.
TopSizes == {RowSize(1), RowSize(2), RowSize(3)}

\* A split that does nothing: the state of the scan variables while another
\* component is run on its own.
ScanIdle ==
    /\ op = SCAN_COUNT
    /\ max_batch_count = 1
    /\ stat_size = FALSE
    /\ top_count = 0
    /\ split_completed = FALSE
    /\ error_occurred = FALSE
    /\ split_rows = 0
    /\ split_request_count = 0
    /\ hist_count = 0
    /\ cursor_left = 0
    /\ fetching = 0
    /\ writing = 0
    /\ main_pc = "done"
    /\ cb = <<>>
    /\ delivered = 0
    /\ reports = 0
    /\ failed = FALSE
    /\ applied = 0
    /\ write_ok = 0

\* top_container(int count) : _count(count)
TopInit ==
    /\ StatIdle
    /\ ScanIdle
    /\ RpcIdle
    /\ ParseIdle
    /\ heap_count \in 0 .. MaxK
    /\ heap = {}
    /\ offered = <<>>

\* One call of push(hash_key, sort_key, row_size), the whole of it under _lock;
\* concurrent calls are serialised by the lock in some order.
TopPush(row_size) ==
    /\ Len(offered) < MaxPushes
    /\ heap' \in PushOutcomes(heap, heap_count, Item(Len(offered) + 1, row_size))
    /\ offered' = Offer(offered, row_size)
    /\ UNCHANGED <<heap_count, scanVars, rpcVars, parseVars, statVars>>

TopNext == \E row_size \in TopSizes : TopPush(row_size)

TopSpec == TopInit /\ [][TopNext]_vars

\* The sizes a heap holds, each with the number of items of that size.
HeldSizes(h) ==
    [v \in {x.row_size : x \in h} |-> Cardinality({x \in h : x.row_size = v})]
\* How many of the offered samples of size v are not held: they were refused
\* or evicted.
Dropped(v) ==
    Cardinality({i \in 1 .. Len(offered) : offered[i] = v})
        - Cardinality({x \in heap : x.row_size = v})
Min(a, b) == IF a < b THEN a ELSE b

\* C6: a container of capacity K >= 1 holds exactly min(K, pushes) items, and
\* every held item is at least as large as every sample that was refused or
\* evicted.
TopKeepsLargest ==
    heap_count >= 1 =>
        /\ Cardinality(heap) = Min(heap_count, Len(offered))
        /\ \A x \in heap : \A v \in TopSizes : Dropped(v) > 0 => x.row_size >= v

\* The heaps that pushing sizes[k], sizes[k+1], ... onto one of hs can leave.
RECURSIVE HeapsAfter(_, _, _, _)
HeapsAfter(hs, count, sizes, k) ==
    IF k > Len(sizes) THEN hs
    ELSE HeapsAfter(UNION {PushOutcomes(h, count, Item(k, sizes[k])) : h \in hs},
                    count, sizes, k + 1)

\* C7: for a capacity K >= 1 and the samples offered so far, pushing them in
\* any order leaves the sizes this run has left.
TopOrderIndependent ==
    heap_count >= 1 =>
        \A p \in Permutations(1 .. Len(offered)) :
            \A h \in HeapsAfter({{}}, heap_count,
                                [i \in 1 .. Len(offered) |-> offered[p[i]]], 1) :
                HeldSizes(h) = HeldSizes(heap)

\* C20: a container built with count 0 holds no item, whatever push calls
\* were made on it.
ZeroCapacityHoldsNothing == heap_count = 0 => heap = {}


\* ------------------------------------------------------ call_remote_command
\* Most nodes a command is sent to.
MaxNodes == 3

\* dsn::error_code values a call can end with: ERR_OK, and two of the others.
ERR_OK == 0
ERR_TIMEOUT == 1
ERR_NETWORK_FAILURE == 2
ErrCodes == {ERR_OK, ERR_TIMEOUT, ERR_NETWORK_FAILURE}
\* err.to_string()
ErrToString(err) ==
    CASE err = ERR_OK -> "ERR_OK"
      [] err = ERR_TIMEOUT -> "ERR_TIMEOUT"
      [] err = ERR_NETWORK_FAILURE -> "ERR_NETWORK_FAILURE"
\* Reply payloads a node can send.
Payloads == {"{\"result\":\"OK\"}", "unknown command"}

NoReply == [err |-> -1, payload |-> ""]
\* A value-initialised std::pair<bool, std::string>.
EmptyResult == [first |-> FALSE, second |-> ""]

\* std::vector::resize(n): the first n elements kept, value-initialised ones added.
Resize(v, n, fill) == [i \in 1 .. n |-> IF i <= Len(v) THEN v[i] ELSE fill]

\* No scan and no top_container is in use.
TopIdle ==
    /\ heap = {}
    /\ heap_count = 0
    /\ offered = <<>>

\* The caller is about to run call_remote_command(sc, nodes, cmd, results)
\* with an empty results vector, as get_app_stat does.
RpcInit ==
    /\ StatIdle
    /\ ScanIdle
    /\ TopIdle
    /\ ParseIdle
    /\ num_nodes \in 0 .. MaxNodes
    /\ rc_pc = "resize"
    /\ rc_i = 0
    /\ tasks = <<>>
    /\ results = <<>>
    /\ replies = <<>>

\* tasks.resize(nodes.size()); results.resize(nodes.size());
RcResize ==
    /\ rc_pc = "resize"
    /\ tasks' = Resize(tasks, num_nodes, "null")
    /\ results' = Resize(results, num_nodes, EmptyResult)
    /\ replies' = Resize(replies, num_nodes, NoReply)
    /\ rc_pc' = "issue"
    /\ rc_i' = 0
    /\ UNCHANGED <<num_nodes, scanVars, topVars, parseVars, statVars>>

\* First loop: tasks[i] = cli.call(cmd, callback, 5000ms, ..., nodes[i].address)
RcIssue ==
    /\ rc_pc = "issue"
    /\ IF rc_i < num_nodes
       THEN /\ tasks' = [tasks EXCEPT ![rc_i + 1] = "pending"]
            /\ rc_i' = rc_i + 1
            /\ UNCHANGED rc_pc
       ELSE /\ rc_pc' = "wait"
            /\ rc_i' = 0
            /\ UNCHANGED tasks
    /\ UNCHANGED <<num_nodes, results, replies, scanVars, topVars, parseVars, statVars>>

\* A callback that captured the loop variable by reference and reads it after
\* the loop ended.
ResultSlotByReference(i) == num_nodes

\* The element of results the callback built in iteration i writes: i is
\* captured by value.
ResultSlot(i) == i

\* The callback of node i's call is invoked with err (and the response), and
\* stores results[i].first.
RcCallbackBegin(i, err, payload) ==
    /\ i \in 1 .. Len(tasks)
    /\ tasks[i] = "pending"
    /\ (err = ERR_OK) = (payload \in Payloads)
    /\ tasks' = [tasks EXCEPT ![i] = "running"]
    /\ replies' = [replies EXCEPT ![i] = [err |-> err, payload |-> payload]]
    /\ results' = [results EXCEPT ![ResultSlot(i)].first = (err = ERR_OK)]
    /\ UNCHANGED <<num_nodes, rc_pc, rc_i, scanVars, topVars, parseVars, statVars>>

\* The callback stores results[i].second, the unmarshalled response or
\* err.to_string(), and ends: the task is finished.
RcCallbackEnd(i) ==
    /\ i \in 1 .. Len(tasks)
    /\ tasks[i] = "running"
    /\ tasks' = [tasks EXCEPT ![i] = "finished"]
    /\ results' = [results EXCEPT ![ResultSlot(i)].second =
                      IF replies[i].err = ERR_OK THEN replies[i].payload
                      ELSE ErrToString(replies[i].err)]
    /\ UNCHANGED <<num_nodes, rc_pc, rc_i, replies, scanVars, topVars, parseVars, statVars>>

\* A wait that returns as soon as the response has arrived.
TaskWaitStarted(state) == state \in {"running", "finished"}

\* task::wait() returns once the task, callback included, has finished.
TaskWaitDone(state) == state = "finished"

\* Second loop: tasks[i]->wait()
RcWait ==
    /\ rc_pc = "wait"
    /\ IF rc_i < num_nodes
       THEN /\ TaskWaitDone(tasks[rc_i + 1])
            /\ rc_i' = rc_i + 1
            /\ UNCHANGED rc_pc
       ELSE /\ rc_pc' = "returned"
            /\ UNCHANGED rc_i
    /\ UNCHANGED <<num_nodes, tasks, results, replies, scanVars, topVars, parseVars, statVars>>

RpcNext ==
    \/ RcResize
    \/ RcIssue
    \/ \E i \in 1 .. MaxNodes + 1, err \in ErrCodes, payload \in Payloads \cup {""} :
           RcCallbackBegin(i, err, payload)
    \/ \E i \in 1 .. MaxNodes + 1 : RcCallbackEnd(i)
    \/ RcWait

RpcSpec == RpcInit /\ [][RpcNext]_vars


\* What the callback is to leave in results[i] for a reply.
ResultOf(reply) ==
    IF reply.err = ERR_OK
    THEN [first |-> TRUE, second |-> reply.payload]
    ELSE [first |-> FALSE, second |-> ErrToString(reply.err)]

\* C8: when call_remote_command has returned, the callback of every one of
\* the N calls has finished, and results has N entries, entry i being
\* (true, payload) if node i answered without error and (false, error text)
\* otherwise.
JoinIsComplete ==
    rc_pc = "returned" =>
        /\ Len(results) = num_nodes
        /\ \A i \in 1 .. num_nodes :
               /\ tasks[i] = "finished"
               /\ results[i] = ResultOf(replies[i])

\* C8 witness: the command has returned from at least two nodes, one that
\* answered and one that failed.
JoinIsCompleteWitness ==
    /\ rc_pc = "returned"
    /\ num_nodes >= 2
    /\ \E i, j \in 1 .. num_nodes : results[i].first /\ ~results[j].first

\* C9: an entry of results changes only in a step of the callback of its own
\* node: the callbacks of other nodes, whatever they received and in whatever
\* order they run, leave it as it is.
ResultsIndependent ==
    [][\A j \in 1 .. Len(results) :
           results'[j] # results[j] =>
               \/ tasks[j] = "pending" /\ tasks'[j] = "running"
               \/ tasks[j] = "running" /\ tasks'[j] = "finished"]_vars

\* C9 witness: the last node timed out, and every other node's entry is its
\* successful reply.
ResultsIndependentWitness ==
    /\ rc_pc = "returned"
    /\ num_nodes = MaxNodes
    /\ replies[num_nodes].err = ERR_TIMEOUT
    /\ results[num_nodes] = [first |-> FALSE, second |-> "ERR_TIMEOUT"]
    /\ \A i \in 1 .. num_nodes - 1 :
           replies[i].err = ERR_OK /\ results[i] = [first |-> TRUE, second |-> replies[i].payload]


\* ------------------------------------- parse_app_pegasus_perf_counter_name
\* A std::string is the sequence of its characters; positions are 0-based as
\* in the code, and NPOS stands for std::string::npos.
MaxNameLen == 7
NameChars == {"*", "@", ".", "a", "7"}
NPOS == -1

Digits == {"0", "1", "2", "3", "4", "5", "6", "7", "8", "9"}
DigitValue(c) ==
    CASE c = "0" -> 0 [] c = "1" -> 1 [] c = "2" -> 2 [] c = "3" -> 3
      [] c = "4" -> 4 [] c = "5" -> 5 [] c = "6" -> 6 [] c = "7" -> 7
      [] c = "8" -> 8 [] c = "9" -> 9
\* The characters isspace() accepts that can stand in a name.
Spaces == {" ", "\t", "\n"}

\* The names of the contract's example and of a counter as a replica sends it.
ExampleNames ==
    { <<"*", "g", "e", "t", "_", "q", "p", "s", "*", "r", "d", "b", "@", "7", ".", "3">>,
      <<"r", "*", "a", "p", "p", ".", "p", "*", "g", "e", "t", "_", "q", "p", "s", "@", "1", ".", "2">>,
      <<"*", "a", "@", " ", "7", ".", "-", "3">>,
      <<"*", "a", "@", "7", " ", ".", "3">>,
      <<"*", "a", "@", "7", ".", "3", " ", "x">> }

BoundedNames == UNION {[1 .. n -> NameChars] : n \in 0 .. MaxNameLen}

\* std::string::find_first_of(c)
FindFirstOf(str, c) ==
    LET at == {i \in 1 .. Len(str) : str[i] = c}
    IN  IF at = {} THEN NPOS ELSE (CHOOSE i \in at : \A j \in at : i <= j) - 1

\* std::string::find_last_of(c)
FindLastOf(str, c) ==
    LET at == {i \in 1 .. Len(str) : str[i] = c}
    IN  IF at = {} THEN NPOS ELSE (CHOOSE i \in at : \A j \in at : j <= i) - 1

\* std::string::substr(pos, count), pos <= size(): count is a size_t, and a
\* negative difference has wrapped to a count beyond the end of any string.
Substr(str, pos, count) ==
    IF count < 0 \/ pos + count > Len(str)
    THEN SubSeq(str, pos + 1, Len(str))
    ELSE SubSeq(str, pos + 1, pos + count)

\* The value of the decimal digits str[from .. to] (1-based, to < from: none).
\* The names of the model hold fewer digits than an int overflows with.
RECURSIVE DecimalValue(_, _, _)
DecimalValue(str, from, to) ==
    IF to < from THEN 0
    ELSE 10 * DecimalValue(str, from, to - 1) + DigitValue(str[to])

\* The first position >= i of str (1-based) whose character is not in set, or
\* Len(str) + 1.
SkipWhile(str, i, set) ==
    LET stop == {j \in i .. Len(str) : str[j] \notin set}
    IN  IF stop = {} THEN Len(str) + 1 ELSE CHOOSE j \in stop : \A k \in stop : j <= k

\* One %d conversion of sscanf at position i: white space is skipped, a sign
\* is optional, at least one digit is needed.
ScanInt(str, i) ==
    LET start == SkipWhile(str, i, Spaces)
        signed == start <= Len(str) /\ str[start] \in {"+", "-"}
        first == IF signed THEN start + 1 ELSE start
        stop == SkipWhile(str, first, Digits)
        value == DecimalValue(str, first, stop - 1)
    IN  [ok |-> stop > first,
         eof |-> start > Len(str),
         value |-> IF signed /\ str[start] = "-" THEN 0 - value ELSE value,
         next |-> stop]

\* sscanf(str, "%d.%d", &a, &b): the number of conversions stored (-1, EOF,
\* when the input ends before the first) and the values stored.
Sscanf2(str) ==
    LET a == ScanInt(str, 1)
        dot == a.ok /\ a.next <= Len(str) /\ str[a.next] = "."
        b == ScanInt(str, a.next + 1)
    IN  IF ~a.ok THEN [n |-> IF a.eof THEN -1 ELSE 0, a |-> 0, b |-> 0]
        ELSE IF ~dot \/ ~b.ok THEN [n |-> 1, a |-> a.value, b |-> 0]
        ELSE [n |-> 2, a |-> a.value, b |-> b.value]

\* The position of the delimiter that starts counter_name.
NameStart(str) == FindLastOf(str, "*")

\* parse_app_pegasus_perf_counter_name(name, app_id, partition_index,
\* counter_name): the value returned and the output arguments, given their
\* values before the call.
Parse(str, id0, index0, counter0) ==
    LET find == FindLastOf(str, "@")
        scan == Sscanf2(Substr(str, find + 1, Len(str)))
        find2 == NameStart(str)
    IN  IF find = NPOS
        THEN [ret |-> FALSE, app_id |-> id0, partition_index |-> index0,
              counter_name |-> counter0]
        ELSE IF scan.n # 2
        THEN [ret |-> FALSE,
              app_id |-> IF scan.n >= 1 THEN scan.a ELSE id0,
              partition_index |-> index0, counter_name |-> counter0]
        ELSE IF find2 = NPOS
        THEN [ret |-> FALSE, app_id |-> scan.a, partition_index |-> scan.b,
              counter_name |-> counter0]
        ELSE [ret |-> TRUE, app_id |-> scan.a, partition_index |-> scan.b,
              counter_name |-> Substr(str, find2 + 1, find - find2 - 1)]

\* A caller holds a name and is about to parse it.
ParseInit ==
    /\ StatIdle
    /\ ScanIdle
    /\ TopIdle
    /\ RpcIdle
    /\ name \in BoundedNames \cup ExampleNames
    /\ p_pc = "call"
    /\ p_ret = FALSE
    /\ app_id = 0
    /\ partition_index = 0
    /\ counter_name = <<>>

\* bool parse_ret = parse_app_pegasus_perf_counter_name(m.name, app_id_x,
\* partition_index_x, counter_name)
ParseCall ==
    /\ p_pc = "call"
    /\ LET r == Parse(name, app_id, partition_index, counter_name)
       IN  /\ p_ret' = r.ret
           /\ app_id' = r.app_id
           /\ partition_index' = r.partition_index
           /\ counter_name' = r.counter_name
    /\ p_pc' = "done"
    /\ UNCHANGED <<name, scanVars, topVars, rpcVars, statVars>>

ParseNext == ParseCall

ParseSpec == ParseInit /\ [][ParseNext]_vars

\* A name of the form *M*R@E.P: it starts with '*', holds exactly two '*' and
\* one '@', the '@' after the second '*', and what follows the '@' is digits,
\* one '.', digits.
Stars(str) == {i \in 1 .. Len(str) : str[i] = "*"}
Ats(str) == {i \in 1 .. Len(str) : str[i] = "@"}
SecondStar(str) == CHOOSE i \in Stars(str) : i # 1
TheAt(str) == CHOOSE i \in Ats(str) : TRUE
TheDot(str) == SkipWhile(str, TheAt(str) + 1, Digits)
WellFormed(str) ==
    /\ Len(str) >= 1 /\ str[1] = "*"
    /\ Cardinality(Stars(str)) = 2
    /\ Cardinality(Ats(str)) = 1
    /\ SecondStar(str) < TheAt(str)
    /\ TheDot(str) > TheAt(str) + 1
    /\ TheDot(str) < Len(str)
    /\ str[TheDot(str)] = "."
    /\ \A i \in TheDot(str) + 1 .. Len(str) : str[i] \in Digits
FieldM(str) == SubSeq(str, 2, SecondStar(str) - 1)
FieldR(str) == SubSeq(str, SecondStar(str) + 1, TheAt(str) - 1)
FieldE(str) == DecimalValue(str, TheAt(str) + 1, TheDot(str) - 1)
FieldP(str) == DecimalValue(str, TheDot(str) + 1, Len(str))

\* C10 as claimed: on a name *M*R@E.P the call succeeds with app_id = E,
\* partition_index = P and counter_name = M.
ParseYieldsFirstField ==
    (p_pc = "done" /\ WellFormed(name)) =>
        /\ p_ret
        /\ app_id = FieldE(name)
        /\ partition_index = FieldP(name)
        /\ counter_name = FieldM(name)

\* C10 as amended: on a name *M*R@E.P the call succeeds with app_id = E,
\* partition_index = P and counter_name = R, the text between the last '*'
\* and the '@'.
ParseYieldsLastField ==
    (p_pc = "done" /\ WellFormed(name)) =>
        /\ p_ret
        /\ app_id = FieldE(name)
        /\ partition_index = FieldP(name)
        /\ counter_name = FieldR(name)

\* C10 witness: "*get_qps*rdb@7.3" has been parsed, to (7, 3, "rdb").
ParseYieldsLastFieldWitness ==
    /\ p_pc = "done"
    /\ name = <<"*", "g", "e", "t", "_", "q", "p", "s", "*", "r", "d", "b", "@", "7", ".", "3">>
    /\ WellFormed(name)
    /\ p_ret
    /\ app_id = 7
    /\ partition_index = 3
    /\ counter_name = <<"r", "d", "b">>

\* What follows the last '@' of a name that holds one.
Suffix(str) == SubSeq(str, FindLastOf(str, "@") + 2, Len(str))

\* An integer in decimal notation: an optional sign and at least one digit.
IsInteger(t) ==
    /\ Len(t) >= 1
    /\ LET first == IF t[1] \in {"+", "-"} THEN 2 ELSE 1
       IN  first <= Len(t) /\ \A i \in first .. Len(t) : t[i] \in Digits

\* t is two integers with one '.' between them, and nothing else.
IsTwoIntegers(t) ==
    \E d \in 1 .. Len(t) :
        /\ t[d] = "."
        /\ IsInteger(SubSeq(t, 1, d - 1))
        /\ IsInteger(SubSeq(t, d + 1, Len(t)))

\* C11: the call returns false for every name without '@', for every name
\* without '*', and for every name whose text after the last '@' is not two
\* integers separated by a '.'.
ParseRejectsMalformed ==
    (p_pc = "done" /\ (\/ Ats(name) = {}
                       \/ Stars(name) = {}
                       \/ ~IsTwoIntegers(Suffix(name)))) => ~p_ret

\* C21: for every name whose last '*' comes after its last '@' the call
\* returns false; it never returns true with a counter_name taken from the
\* text after the '@'.
ParseRejectsStarAfterAt ==
    (p_pc = "done" /\ FindLastOf(name, "@") # NPOS
                   /\ FindLastOf(name, "*") > FindLastOf(name, "@")) => ~p_ret


\* ---------------------------------------------------------- get_app_stat
\* Replica servers asked for their counters.
MaxAggNodes == 2
\* partition_count of every table.
MaxPartitions == 2
\* Counters read from one node's reply.
MaxCounters == 2

\* The tables the meta server knows, in the order list_apps gives them, and
\* their app_id.
AppDirectory == <<"t1", "t2">>
AppIdOf(table) == CHOOSE id \in 1 .. Len(AppDirectory) : AppDirectory[id] = table
AppIds == 1 .. Len(AppDirectory)

\* The counter names of the replies: two update_app_pegasus_perf_counter
\* knows, and one it does not.
CounterNames == {"get_qps", "put_qps", "rdb.unknown"}
CounterValues == {10}

\* What a node's entry of results can be: the call failed, the payload is not
\* a perf_counter_info, info.result is not "OK", or the counters are there.
NodeReplies == {"call_failed", "undecodable", "not_ok", "ok"}

\* row_data, of which two of the twenty accumulators are kept.
ZeroRow == [get_qps |-> 0, put_qps |-> 0]

\* update_app_pegasus_perf_counter(row, counter_name, value): the row after it.
UpdateRow(row, counter, value) ==
    IF counter = "get_qps" THEN [row EXCEPT !.get_qps = @ + value]
    ELSE IF counter = "put_qps" THEN [row EXCEPT !.put_qps = @ + value]
    ELSE row

\* app_row_idx[app_id]: the place of the table in apps (0-based).
AppRowIdx(id) == (CHOOSE i \in 1 .. Len(apps) : AppIdOf(apps[i]) = id) - 1

\* The index of the row a counter of (id, index) belongs to: the table's row
\* when no table was named, the partition's row when one was.
RowIdx(id, index) == IF app_name = "" THEN AppRowIdx(id) ELSE index

\* The test that keeps a counter node i + 1 sent: the table is known (with a
\* table named, the command's filter and the dassert see to it) and the
\* primary of the partition is that node.
FromPrimary(id, index, i) ==
    /\ id \in DOMAIN app_partitions
    /\ app_partitions[id][index] = i + 1

\* The sums with value added to the accumulator counter of row idx.
Accumulate(sums, idx, counter, value) ==
    [sums EXCEPT ![idx + 1] = UpdateRow(@, counter, value)]

\* The caller passes an empty rows vector.
StatInit ==
    /\ ScanIdle
    /\ TopIdle
    /\ RpcIdle
    /\ ParseIdle
    /\ gs_pc = "list_apps"
    /\ app_name \in {""} \cup {AppDirectory[i] : i \in 1 .. Len(AppDirectory)}
    /\ apps = <<>>
    /\ nodes = 0
    /\ app_partitions = <<>>
    /\ rows = <<>>
    /\ gs_i = 0
    /\ gs_k = 0
    /\ gs_ret = FALSE
    /\ gs_log = ""
    /\ reported = <<>>

\* "return true;"
StatReturn ==
    /\ gs_pc' = "done"
    /\ gs_ret' = TRUE

\* derror(...); return true;
StatFail(line) ==
    /\ gs_log' = line
    /\ StatReturn

\* sc->ddl_client->list_apps(AS_AVAILABLE, apps) and the test of its result.
StatListApps ==
    /\ gs_pc = "list_apps"
    /\ \E err \in {ERR_OK, ERR_TIMEOUT} : \E n \in 0 .. Len(AppDirectory) :
           IF err # ERR_OK
           THEN StatFail("list apps failed") /\ UNCHANGED apps
           ELSE /\ apps' = SubSeq(AppDirectory, 1, n)
                /\ gs_pc' = "find_app"
                /\ UNCHANGED <<gs_ret, gs_log>>
    /\ UNCHANGED <<app_name, nodes, app_partitions, rows, gs_i, gs_k, reported,
                   scanVars, topVars, rpcVars, parseVars>>

\* The search of apps for app_name.
StatFindApp ==
    /\ gs_pc = "find_app"
    /\ IF app_name # "" /\ ~(\E i \in 1 .. Len(apps) : apps[i] = app_name)
       THEN StatFail("app not found")
       ELSE gs_pc' = "fill_nodes" /\ UNCHANGED <<gs_ret, gs_log>>
    /\ UNCHANGED <<app_name, apps, nodes, app_partitions, rows, gs_i, gs_k,
                   reported, scanVars, topVars, rpcVars, parseVars>>

\* fill_nodes(sc, "replica-server", nodes), then call_remote_command, which
\* returns when every node has answered or failed.
StatFillNodes ==
    /\ gs_pc = "fill_nodes"
    /\ \E ok \in BOOLEAN : \E n \in 1 .. MaxAggNodes :
           IF ~ok
           THEN StatFail("get replica server node list failed") /\ UNCHANGED nodes
           ELSE /\ nodes' = n
                /\ gs_pc' = IF app_name = "" THEN "list_all" ELSE "list_one"
                /\ UNCHANGED <<gs_ret, gs_log>>
    /\ UNCHANGED <<app_name, apps, app_partitions, rows, gs_i, gs_k, reported,
                   scanVars, topVars, rpcVars, parseVars>>

\* What list_app can give for a table: a primary for each partition.
Primaries == [0 .. MaxPartitions - 1 -> 1 .. nodes]

\* No table named: one turn of the loop that calls list_app for every table
\* of apps, and after the last turn rows.resize and the filling of row_name
\* and app_row_idx.
StatListAll ==
    /\ gs_pc = "list_all"
    /\ IF gs_i < Len(apps)
       THEN \E err \in {ERR_OK, ERR_TIMEOUT} : \E primaries \in Primaries :
               IF err # ERR_OK
               THEN /\ StatFail("list app failed")
                    /\ UNCHANGED <<app_partitions, rows, gs_i, reported>>
               ELSE /\ app_partitions' =
                           (AppIdOf(apps[gs_i + 1]) :> primaries) @@ app_partitions
                    /\ gs_i' = gs_i + 1
                    /\ UNCHANGED <<gs_pc, gs_ret, gs_log, rows, reported>>
       ELSE /\ rows' = Resize(rows, Cardinality(DOMAIN app_partitions), ZeroRow)
            /\ reported' = rows'
            /\ gs_i' = 0
            /\ gs_pc' = "node"
            /\ UNCHANGED <<app_partitions, gs_ret, gs_log>>
    /\ UNCHANGED <<app_name, apps, nodes, gs_k, scanVars, topVars, rpcVars,
                   parseVars>>

\* A table named: rows.resize(partition_count) and the filling of row_name,
\* then list_app for the table.
StatListOne ==
    /\ gs_pc = "list_one"
    /\ rows' = Resize(rows, MaxPartitions, ZeroRow)
    /\ reported' = rows'
    /\ \E err \in {ERR_OK, ERR_TIMEOUT} : \E primaries \in Primaries :
           IF err # ERR_OK
           THEN StatFail("list app failed") /\ UNCHANGED <<app_partitions, gs_i>>
           ELSE /\ app_partitions' = (AppIdOf(app_name) :> primaries)
                /\ gs_i' = 0
                /\ gs_pc' = "node"
                /\ UNCHANGED <<gs_ret, gs_log>>
    /\ UNCHANGED <<app_name, apps, nodes, gs_k, scanVars, topVars, rpcVars,
                   parseVars>>

\* The partitions whose primary is a node the loop has not come to when it
\* stops at nodes[gs_i]: their counters lie unread in results.
Unread == {pr \in AppIds \X (0 .. MaxPartitions - 1) :
              /\ pr[1] \in DOMAIN app_partitions
              /\ app_partitions[pr[1]][pr[2]] > gs_i + 1}

\* The line derror writes for a node whose reply fails one of the three tests.
NodeFailure(reply) ==
    CASE reply = "call_failed" -> "query perf counter info from node failed"
      [] reply = "undecodable" -> "decode perf counter info from node failed"
      [] reply = "not_ok" -> "query perf counter info from node returns error"

\* One turn of the loop over nodes, up to the loop over info.counters: the
\* three tests of results[i].  When a test fails the function returns, and the
\* replies of the nodes after nodes[i] are left unread: one of them can hold
\* a counter of a partition its node is the primary of.
StatNode ==
    /\ gs_pc = "node"
    /\ IF gs_i >= nodes
       THEN StatReturn /\ UNCHANGED <<gs_k, gs_log, reported>>
       ELSE \E reply \in NodeReplies :
               IF reply = "ok"
               THEN /\ gs_pc' = "counter"
                    /\ gs_k' = 0
                    /\ UNCHANGED <<gs_ret, gs_log, reported>>
               ELSE /\ StatFail(NodeFailure(reply))
                    /\ \/ UNCHANGED reported
                       \/ \E pr \in Unread : \E c \in CounterNames :
                          \E v \in CounterValues :
                              reported' = Accumulate(reported, RowIdx(pr[1], pr[2]), c, v)
                    /\ UNCHANGED gs_k
    /\ UNCHANGED <<app_name, apps, nodes, app_partitions, rows, gs_i,
                   scanVars, topVars, rpcVars, parseVars>>

\* The tables a counter of the reply can belong to: the command's filter
\* lets the counters of every table through when no table was named, and of
\* the named table only when one was.
CounterApps == IF app_name = "" THEN AppIds ELSE {AppIdOf(app_name)}

\* One turn of the loop over info.counters, for a counter whose name parses
\* to (id, index, counter) with index below the table's partition_count.
StatCounter ==
    /\ gs_pc = "counter"
    /\ gs_k < MaxCounters
    /\ \E id \in CounterApps : \E index \in 0 .. MaxPartitions - 1 :
       \E counter \in CounterNames : \E value \in CounterValues :
           /\ rows' = IF id \notin DOMAIN app_partitions THEN rows
                      ELSE IF app_partitions[id][index] # gs_i + 1 THEN rows
                      ELSE [rows EXCEPT ![RowIdx(id, index) + 1] =
                                            UpdateRow(@, counter, value)]
           /\ reported' = IF FromPrimary(id, index, gs_i)
                          THEN Accumulate(reported, RowIdx(id, index), counter, value)
                          ELSE reported
    /\ gs_k' = gs_k + 1
    /\ UNCHANGED <<gs_pc, app_name, apps, nodes, app_partitions, gs_i, gs_ret, gs_log,
                   scanVars, topVars, rpcVars, parseVars>>

\* The end of info.counters: ++i.
StatNodeEnd ==
    /\ gs_pc = "counter"
    /\ gs_i' = gs_i + 1
    /\ gs_pc' = "node"
    /\ UNCHANGED <<app_name, apps, nodes, app_partitions, rows, gs_k, gs_ret, gs_log,
                   reported, scanVars, topVars, rpcVars, parseVars>>

StatNext ==
    \/ StatListApps
    \/ StatFindApp
    \/ StatFillNodes
    \/ StatListAll
    \/ StatListOne
    \/ StatNode
    \/ StatCounter
    \/ StatNodeEnd

StatSpec == StatInit /\ [][StatNext]_vars

\* C12: when get_app_stat has returned, every accumulator of every row is the
\* sum of the values the primaries of the row's partitions have reported for
\* it: a value is in the sum if and only if the node that reported it is the
\* recorded primary of the counter's partition.
RowsSumPrimaries == gs_pc = "done" => rows = reported

\* The lines derror writes when list_apps, the search for the table,
\* fill_nodes or list_app fails.
ListingFailures == {"list apps failed", "app not found",
                    "get replica server node list failed", "list app failed"}

\* No row holds a value.
NothingAccumulated == \A i \in 1 .. Len(rows) : rows[i] = ZeroRow

\* C22: when get_app_stat has returned after list_apps, fill_nodes or list_app
\* failed, or after the table was not found, no counter is accumulated and
\* the value returned is not true, the value a complete aggregation returns.
ListingFailureIsTold ==
    (gs_pc = "done" /\ gs_log \in ListingFailures) =>
        /\ NothingAccumulated
        /\ gs_ret # TRUE

=============================================================================
